---- MODULE Spec2Model ----
(***************************************************************************)
(* Model of assets/add_new_tags_to_all.py: the AddNewTags file iterator.   *)
(*                                                                         *)
(* Text is a sequence of one-character strings, so that the substring      *)
(* test ("Padding" in buffer) and str.replace are computed character by    *)
(* character, as Python computes them.  A file system is a sequence of     *)
(* files in directory-traversal order; a path is the index of a file.      *)
(***************************************************************************)
EXTENDS Integers, Sequences, FiniteSets, TLC

VARIABLES
    fs,      \* fs[p]: content of the file at path p
    names,   \* names[p]: basename of the file at path p
    pc,      \* "idle": no run in progress; "running": inside process_all
    run,     \* the run in progress (or the last one)
    hist,    \* finished runs, oldest first
    faults   \* number of I/O errors raised so far

vars == <<fs, names, pc, run, hist, faults>>

----------------------------------------------------------------------------
(* Bounds *)

MaxChunks == 2
NumFiles == 2
MaxRuns == 2
MaxFaults == 1

----------------------------------------------------------------------------
(* Literals of the script *)

\* "Padding"
Marker == <<"P", "a", "d", "d", "i", "n", "g">>

\* "  </Asset>"
CloseTag == <<" ", " ", "<", "/", "A", "s", "s", "e", "t", ">">>

\* '    <Padding Null="true" />' and the line break that follows it
PaddingLine ==
    <<" ", " ", " ", " ", "<", "P", "a", "d", "d", "i", "n", "g", " ",
      "N", "u", "l", "l", "=", "\"", "t", "r", "u", "e", "\"", " ", "/", ">",
      "\n">>

\* variant: the replacement text without the new tag
NewText_nomark == <<"\n">> \o CloseTag

\* variant: the new tag placed after the closing tag
NewText_after == CloseTag \o <<"\n">> \o PaddingLine

\* the second argument of buffer.replace
NewText == PaddingLine \o CloseTag

\* variant: every file registered
Patterns_all == << <<"*">> >>

\* the pattern registered by the script: "*.xml"
Patterns == << <<"*", ".", "x", "m", "l">> >>

\* the value of a call that falls off the end of process_file
None == 0

----------------------------------------------------------------------------
(* Python string operations *)

\* pat in buf
Contains(buf, pat) ==
    \E i \in 1..(Len(buf) - Len(pat) + 1) : SubSeq(buf, i, i + Len(pat) - 1) = pat

RECURSIVE ReplaceN(_, _, _, _)
\* buf.replace(old, new, count) for a non-empty old: leftmost occurrences
\* first, never overlapping, at most count of them
ReplaceN(buf, old, new, count) ==
    IF count = 0 \/ Len(buf) < Len(old) THEN buf
    ELSE IF SubSeq(buf, 1, Len(old)) = old
         THEN new \o ReplaceN(SubSeq(buf, Len(old) + 1, Len(buf)), old, new, count - 1)
         ELSE <<Head(buf)>> \o ReplaceN(Tail(buf), old, new, count)

\* buf.replace(old, new, 1): the first occurrence only
Replace_first(buf, old, new) == ReplaceN(buf, old, new, 1)

\* buf.replace(old, new): every occurrence
Replace(buf, old, new) == ReplaceN(buf, old, new, Len(buf))

----------------------------------------------------------------------------
(* fnmatch on basenames *)

RECURSIVE FnMatch(_, _)
\* fnmatch(name, pat) with the wildcards * and ?
FnMatch(name, pat) ==
    IF pat = <<>> THEN name = <<>>
    ELSE IF Head(pat) = "*"
         THEN \/ FnMatch(name, Tail(pat))
              \/ (name # <<>> /\ FnMatch(Tail(name), pat))
    ELSE IF name = <<>> THEN FALSE
    ELSE IF Head(pat) = "?" THEN FnMatch(Tail(name), Tail(pat))
    ELSE Head(name) = Head(pat) /\ FnMatch(Tail(name), Tail(pat))

\* the name matches at least one registered pattern
MatchAny(name, pats) == \E k \in 1..Len(pats) : FnMatch(name, pats[k])

RECURSIVE DiscoverFrom(_, _, _)
DiscoverFrom(p, nm, pats) ==
    IF p > Len(nm) THEN <<>>
    ELSE (IF MatchAny(nm[p], pats) THEN <<p>> ELSE <<>>) \o DiscoverFrom(p + 1, nm, pats)

\* the files matching a registered pattern, in traversal order
Discover(nm) == DiscoverFrom(1, nm, Patterns)

----------------------------------------------------------------------------
(* AddNewTags.process_file *)

\* variant: no idempotency guard
HasMarker_never(buffer) == FALSE

\* "Padding" in buffer
HasMarker(buffer) == Contains(buffer, Marker)

\* variant: the result of buffer.replace is dropped
Substitute_unassigned(buffer) == buffer

\* buffer = buffer.replace("  </Asset>", ...)
Substitute(buffer) == Replace(buffer, CloseTag, NewText)

\* variant: the dryrun flag is ignored
process_file_nodry(path, buffer, dryrun) ==
    IF HasMarker(buffer)
    THEN [ret |-> path, buffer |-> buffer, read |-> TRUE, wrote |-> FALSE]
    ELSE [ret |-> None, buffer |-> Substitute(buffer), read |-> TRUE, wrote |-> TRUE]

\* variant: a dry run returns nothing
process_file_drynone(path, buffer, dryrun) ==
    IF dryrun
    THEN [ret |-> None, buffer |-> buffer, read |-> FALSE, wrote |-> FALSE]
    ELSE IF HasMarker(buffer)
    THEN [ret |-> path, buffer |-> buffer, read |-> TRUE, wrote |-> FALSE]
    ELSE [ret |-> None, buffer |-> Substitute(buffer), read |-> TRUE, wrote |-> TRUE]

\* ret: the value returned; buffer: the content of the file afterwards;
\* read, wrote: whether the file was opened for reading, for writing
process_file(path, buffer, dryrun) ==
    IF dryrun
    THEN [ret |-> path, buffer |-> buffer, read |-> FALSE, wrote |-> FALSE]
    ELSE IF HasMarker(buffer)
    THEN [ret |-> path, buffer |-> buffer, read |-> TRUE, wrote |-> FALSE]
    ELSE [ret |-> None, buffer |-> Substitute(buffer), read |-> TRUE, wrote |-> TRUE]

----------------------------------------------------------------------------
(* Initial file systems *)

\* pieces of text: the literals of the script, parts of them, and filler
Chunks ==
    { CloseTag, Marker, PaddingLine,
      <<"P", "a", "d">>, <<"d", "i", "n", "g">>,
      <<" ">>, <<"<", "/", "A", "s", "s", "e", "t", ">">>,
      <<"\n">>, <<"x">> }

RECURSIVE Texts(_)
\* the concatenations of at most n chunks
Texts(n) ==
    IF n = 0 THEN { <<>> }
    ELSE Texts(n - 1) \cup { t \o c : t \in Texts(n - 1), c \in Chunks }

\* basenames
FileNames ==
    { <<"a", ".", "x", "m", "l">>, <<"a", ".", "t", "x", "t">> }

\* contents: closing tag, two closing tags, transformed, neither, marker only
CorpusTexts ==
    { CloseTag \o <<"\n">>,
      <<"x">> \o CloseTag \o CloseTag,
      NewText,
      <<"x", "\n">>,
      Marker }

\* basenames that "*.xml" matches and basenames it does not
CorpusNames ==
    { <<"a", ".", "x", "m", "l">>, <<".", "x", "m", "l">>,
      <<"x", "m", "l">>, <<"a", ".", "x", "m", "l", "~">> }

\* contents: closing tag, transformed, neither
FaultTexts == { CloseTag, NewText, <<"x">> }

FaultNames ==
    { <<"a", ".", "x", "m", "l">>, <<"x", "m", "l">>,
      <<"a", ".", "x", "m", "l", "~">> }

NoRun ==
    [dryrun |-> FALSE, pre |-> <<>>, discovered |-> <<>>, todo |-> <<>>,
     result |-> <<>>, rd |-> {}, wr |-> {}]

InitWith(n, texts, nms) ==
    /\ fs \in [1..n -> texts]
    /\ names \in [1..n -> nms]
    /\ pc = "idle"
    /\ run = NoRun
    /\ hist = <<>>
    /\ faults = 0

\* one file, every text of at most MaxChunks chunks
Init == InitWith(1, Texts(MaxChunks), FileNames)

\* NumFiles files
InitCorpus == InitWith(NumFiles, CorpusTexts, CorpusNames)

\* NumFiles files, for the runs with I/O errors
InitFault == InitWith(NumFiles, FaultTexts, FaultNames)

----------------------------------------------------------------------------
(* FilesIterator.process_all *)

\* process_all(dryrun) is called: the files are discovered
ProcessAllStart(d) ==
    /\ pc = "idle"
    /\ Len(hist) < MaxRuns
    /\ pc' = "running"
    /\ run' = [dryrun |-> d, pre |-> fs, discovered |-> Discover(names),
               todo |-> Discover(names), result |-> <<>>, rd |-> {}, wr |-> {}]
    /\ UNCHANGED <<fs, names, hist, faults>>

\* one iteration of the loop: process_file on the next discovered file
ProcessFileStep ==
    /\ pc = "running"
    /\ run.todo # <<>>
    /\ LET path == Head(run.todo)
           out == process_file(path, fs[path], run.dryrun)
       IN /\ fs' = [fs EXCEPT ![path] = out.buffer]
          /\ run' = [run EXCEPT !.todo = Tail(@),
                                !.result = Append(@, out.ret),
                                !.rd = IF out.read THEN @ \cup {path} ELSE @,
                                !.wr = IF out.wrote THEN @ \cup {path} ELSE @]
    /\ UNCHANGED <<names, pc, hist, faults>>

\* the record of a run that ended as r with the file system as post
Finished(ok, r, post) ==
    [dryrun |-> r.dryrun, ok |-> ok, pre |-> r.pre, post |-> post,
     discovered |-> r.discovered, todo |-> r.todo, result |-> r.result,
     rd |-> r.rd, wr |-> r.wr]

\* the loop is over: process_all returns the results
ProcessAllReturn ==
    /\ pc = "running"
    /\ run.todo = <<>>
    /\ pc' = "idle"
    /\ hist' = Append(hist, Finished(TRUE, run, fs))
    /\ UNCHANGED <<fs, names, run, faults>>

\* open(path, "r") or infile.read() raises: the error leaves process_all
ReadError ==
    /\ pc = "running"
    /\ run.todo # <<>>
    /\ ~run.dryrun
    /\ faults < MaxFaults
    /\ LET path == Head(run.todo)
       IN run' = [run EXCEPT !.rd = @ \cup {path}]
    /\ faults' = faults + 1
    /\ pc' = "idle"
    /\ hist' = Append(hist, Finished(FALSE, run', fs))
    /\ UNCHANGED <<fs, names>>

\* open(path, "w") raises before the file is truncated
OpenWriteError ==
    /\ pc = "running"
    /\ run.todo # <<>>
    /\ ~run.dryrun
    /\ ~HasMarker(fs[Head(run.todo)])
    /\ faults < MaxFaults
    /\ LET path == Head(run.todo)
       IN run' = [run EXCEPT !.rd = @ \cup {path}, !.wr = @ \cup {path}]
    /\ faults' = faults + 1
    /\ pc' = "idle"
    /\ hist' = Append(hist, Finished(FALSE, run', fs))
    /\ UNCHANGED <<fs, names>>

\* open(path, "w") has truncated the file and outfile.write or the closing
\* flush raises: the file holds the first n characters of the new buffer
WriteError ==
    /\ pc = "running"
    /\ run.todo # <<>>
    /\ ~run.dryrun
    /\ ~HasMarker(fs[Head(run.todo)])
    /\ faults < MaxFaults
    /\ LET path == Head(run.todo)
           new == Substitute(fs[path])
       IN /\ \E n \in 0..(Len(new) - 1) :
                fs' = [fs EXCEPT ![path] = SubSeq(new, 1, n)]
          /\ run' = [run EXCEPT !.rd = @ \cup {path}, !.wr = @ \cup {path}]
    /\ faults' = faults + 1
    /\ pc' = "idle"
    /\ hist' = Append(hist, Finished(FALSE, run', fs'))
    /\ UNCHANGED names

Next ==
    \/ \E d \in BOOLEAN : ProcessAllStart(d)
    \/ ProcessFileStep
    \/ ProcessAllReturn

NextFault ==
    \/ Next
    \/ ReadError
    \/ OpenWriteError
    \/ WriteError

\* one file, no I/O error
Spec == Init /\ [][Next]_vars

\* several files, no I/O error
SpecCorpus == InitCorpus /\ [][Next]_vars

\* several files, I/O errors
SpecFault == InitFault /\ [][NextFault]_vars

----------------------------------------------------------------------------
(* Vocabulary of the properties *)

Range(seq) == { seq[i] : i \in 1..Len(seq) }

Paths == DOMAIN fs

\* the positions at which pat occurs in text
Occurrences(text, pat) ==
    { i \in 1..(Len(text) - Len(pat) + 1) : SubSeq(text, i, i + Len(pat) - 1) = pat }

\* the basename ends in ".xml"
EndsWithXml(name) ==
    /\ Len(name) >= 4
    /\ SubSeq(name, Len(name) - 3, Len(name)) = <<".", "x", "m", "l">>

XmlPaths == { p \in Paths : EndsWithXml(names[p]) }

RECURSIVE Delete(_, _)
\* text without the occurrences of pat
Delete(text, pat) ==
    IF Len(text) < Len(pat) THEN text
    ELSE IF SubSeq(text, 1, Len(pat)) = pat
         THEN Delete(SubSeq(text, Len(pat) + 1, Len(text)), pat)
         ELSE <<Head(text)>> \o Delete(Tail(text), pat)

\* every closing tag of text has the Padding line right before it
PaddedCloseTags(text) ==
    \A i \in Occurrences(text, CloseTag) :
        /\ i > Len(PaddingLine)
        /\ SubSeq(text, i - Len(PaddingLine), i - 1) = PaddingLine

Runs == 1..Len(hist)

\* run k ran to its end with dryrun = false
CompleteReal(k) == hist[k].ok /\ ~hist[k].dryrun

\* run k ran to its end with dryrun = true
CompleteDry(k) == hist[k].ok /\ hist[k].dryrun

\* the files whose content run k changed
Changed(k) == { p \in Paths : hist[k].post[p] # hist[k].pre[p] }

\* what one uninterrupted run with dryrun = false makes of the file p
Expected(p, text) ==
    IF EndsWithXml(names[p]) /\ ~Contains(text, Marker)
    THEN Replace(text, CloseTag, PaddingLine \o CloseTag)
    ELSE text

----------------------------------------------------------------------------
(* Properties *)

\* C1: a dry run never opens a file for writing and leaves every content as
\* it was, at every step of the run and at its end, whatever the content.
C1_DryRunWritesNothing ==
    /\ (pc = "running" /\ run.dryrun) => (run.wr = {} /\ fs = run.pre)
    /\ \A k \in Runs : hist[k].dryrun => (hist[k].wr = {} /\ hist[k].post = hist[k].pre)

\* a finished dry run over a file that a real run would rewrite
C1_Witness ==
    \E k \in Runs : \E p \in Range(hist[k].discovered) :
        /\ CompleteDry(k)
        /\ ~Contains(hist[k].pre[p], Marker)
        /\ Contains(hist[k].pre[p], CloseTag)

\* C2: a file whose content contains "Padding" at the start of a run is not
\* opened for writing by that run and keeps its content, dry run or not, run
\* finished, in progress or aborted.
C2_MarkedFileUntouched ==
    /\ pc = "running" =>
          \A p \in Paths : Contains(run.pre[p], Marker) =>
              (p \notin run.wr /\ fs[p] = run.pre[p])
    /\ \A k \in Runs : \A p \in Paths : Contains(hist[k].pre[p], Marker) =>
          (p \notin hist[k].wr /\ hist[k].post[p] = hist[k].pre[p])

\* a finished real run that read a file holding the marker and a closing tag
C2_Witness ==
    \E k \in Runs : \E p \in hist[k].rd :
        /\ CompleteReal(k)
        /\ Contains(hist[k].pre[p], Marker)
        /\ Contains(hist[k].pre[p], CloseTag)

\* C3 as stated: after a real run, every file matching "*.xml" that had no
\* marker contains the marker.
C3_MarkerAfterRun ==
    \A k \in Runs : \A p \in XmlPaths :
        (CompleteReal(k) /\ ~Contains(hist[k].pre[p], Marker))
            => Contains(hist[k].post[p], Marker)

\* C3 amended: after a real run, every file matching "*.xml" that had no
\* marker and had the closing tag contains the marker; a file with neither
\* keeps its content, without the marker.
C3_MarkerAfterRunIfCloseTag ==
    \A k \in Runs : \A p \in XmlPaths :
        (CompleteReal(k) /\ ~Contains(hist[k].pre[p], Marker))
            => IF Contains(hist[k].pre[p], CloseTag)
               THEN Contains(hist[k].post[p], Marker)
               ELSE hist[k].post[p] = hist[k].pre[p]

\* a real run rewrote a file that had the closing tag and no marker
C3_Witness ==
    \E k \in Runs : \E p \in XmlPaths :
        /\ CompleteReal(k)
        /\ p \in hist[k].wr
        /\ ~Contains(hist[k].pre[p], Marker)
        /\ Contains(hist[k].pre[p], CloseTag)

\* C4: the second of two real runs in a row leaves every content as the
\* first left it.
C4_SecondRunFixedPoint ==
    \A k \in Runs : (k > 1 /\ CompleteReal(k - 1) /\ CompleteReal(k))
        => hist[k].post = hist[k - 1].post

\* two real runs in a row, the first of which changed a file
C4_Witness ==
    \E k \in Runs :
        /\ k > 1 /\ CompleteReal(k - 1) /\ CompleteReal(k)
        /\ Changed(k - 1) # {}

\* C5 as stated: a real run on a file without the marker replaces the first
\* closing tag only.
C5_OnlyFirstReplaced ==
    \A k \in Runs : \A p \in Range(hist[k].discovered) :
        (CompleteReal(k) /\ ~Contains(hist[k].pre[p], Marker))
            => hist[k].post[p] =
                   Replace_first(hist[k].pre[p], CloseTag, PaddingLine \o CloseTag)

\* C5 amended: a real run on a file without the marker puts one Padding line
\* right before every closing tag of the file: as many Padding lines as
\* closing tags, and no closing tag added or lost.
C5_EveryCloseTagReplaced ==
    \A k \in Runs : \A p \in Range(hist[k].discovered) :
        (CompleteReal(k) /\ ~Contains(hist[k].pre[p], Marker))
            => /\ Cardinality(Occurrences(hist[k].post[p], CloseTag))
                    = Cardinality(Occurrences(hist[k].pre[p], CloseTag))
               /\ Cardinality(Occurrences(hist[k].post[p], PaddingLine))
                    = Cardinality(Occurrences(hist[k].pre[p], CloseTag))
               /\ PaddedCloseTags(hist[k].post[p])

\* a real run rewrote a file with two closing tags and no marker
C5_Witness ==
    \E k \in Runs : \E p \in hist[k].wr :
        /\ CompleteReal(k)
        /\ Cardinality(Occurrences(hist[k].pre[p], CloseTag)) >= 2

\* C6: the results of a finished run are the discovered paths, one per
\* file, in discovery order.
C6_ResultIsDiscovered ==
    \A k \in Runs : hist[k].ok => hist[k].result = hist[k].discovered

\* C7 as stated: the paths a dry run returns are the files that the real run
\* right after it changes.
C7_DryRunReportsChanged ==
    \A k \in Runs : (k > 1 /\ CompleteDry(k - 1) /\ CompleteReal(k))
        => Range(hist[k - 1].result) = Changed(k)

\* C7 amended: the paths a dry run returns are all the files matching
\* "*.xml"; the files the real run right after it changes are among them,
\* and the others hold the marker already or have no closing tag.
C7_DryRunReportsDiscovered ==
    \A k \in Runs : (k > 1 /\ CompleteDry(k - 1) /\ CompleteReal(k))
        => /\ Range(hist[k - 1].result) = XmlPaths
           /\ Changed(k) \subseteq Range(hist[k - 1].result)
           /\ \A p \in Range(hist[k - 1].result) \ Changed(k) :
                  \/ Contains(hist[k].pre[p], Marker)
                  \/ ~Contains(hist[k].pre[p], CloseTag)

\* a dry run, then a real run that changes one reported file and leaves
\* another reported file alone
C7_Witness ==
    \E k \in Runs :
        /\ k > 1 /\ CompleteDry(k - 1) /\ CompleteReal(k)
        /\ Changed(k) # {}
        /\ Range(hist[k - 1].result) \ Changed(k) # {}

\* C8: a run aborted by an I/O error on a file touched no later file and
\* left the earlier files transformed, and the error-free real run right
\* after it ends with every file as one uninterrupted run makes it.
C8_AbortThenRerun ==
    \A k \in Runs : ~hist[k].ok =>
        /\ \A p \in Range(Tail(hist[k].todo)) :
              /\ p \notin hist[k].rd \cup hist[k].wr
              /\ hist[k].post[p] = hist[k].pre[p]
        /\ \A p \in Range(hist[k].discovered) \ Range(hist[k].todo) :
              hist[k].post[p] = Expected(p, hist[k].pre[p])
        /\ (k < Len(hist) /\ CompleteReal(k + 1)) =>
              \A p \in Paths : hist[k + 1].post[p] = Expected(p, hist[k].pre[p])

\* C9: a file whose basename does not end in ".xml" is neither read nor
\* written by any run and keeps its content.
C9_UnmatchedFileUntouched ==
    \A p \in Paths \ XmlPaths :
        /\ pc = "running" => (p \notin run.rd \cup run.wr /\ fs[p] = run.pre[p])
        /\ \A k \in Runs :
              /\ p \notin hist[k].rd \cup hist[k].wr
              /\ hist[k].post[p] = hist[k].pre[p]

\* a finished real run rewrote a file while a file with another name, a
\* closing tag and no marker was there
C9_Witness ==
    \E k \in Runs : \E p \in Paths \ XmlPaths :
        /\ CompleteReal(k)
        /\ hist[k].wr # {}
        /\ Contains(hist[k].pre[p], CloseTag)
        /\ ~Contains(hist[k].pre[p], Marker)

\* C10: a real run on a file with a closing tag and no marker changes the
\* file, only by putting the Padding line right before each closing tag
\* (without the Padding lines the new content is the old one), and the real
\* run right after it leaves the file as it is.
C10_InsertsPaddingLineOnly ==
    \A k \in Runs : \A p \in Range(hist[k].discovered) :
        ( /\ CompleteReal(k)
          /\ Contains(hist[k].pre[p], CloseTag)
          /\ ~Contains(hist[k].pre[p], Marker) )
            => /\ hist[k].post[p] # hist[k].pre[p]
               /\ Delete(hist[k].post[p], PaddingLine) = hist[k].pre[p]
               /\ PaddedCloseTags(hist[k].post[p])
               /\ (k < Len(hist) /\ CompleteReal(k + 1))
                     => hist[k + 1].post[p] = hist[k].post[p]

\* a file with text around its closing tag went through two real runs
C10_Witness ==
    \E k \in Runs : \E p \in hist[k].wr :
        /\ k < Len(hist) /\ CompleteReal(k) /\ CompleteReal(k + 1)
        /\ Contains(hist[k].pre[p], CloseTag)
        /\ Len(hist[k].pre[p]) > Len(CloseTag)

====
